---- MODULE Spec2Model ----
(***************************************************************************)
(* A model of gif_decode.cpp: the LZW decoder of one image block (the part *)
(* of main between the image descriptor and the push_back of the Image),   *)
(* the interlace row table, the playback loop that composites the parsed   *)
(* blocks onto the canvas, the bit string fetch_code reads the codes from, *)
(* and the parser of the file's blocks.                                    *)
(***************************************************************************)
EXTENDS Integers, Sequences, FiniteSets, TLC

VARIABLES
    dec,      \* the locals of main while one image block is decoded
    blocks,   \* main::blocks, the parsed block list
    play,     \* the locals of main during playback, the canvas included
    obs,      \* history of the last loop iteration, kept for the properties only
    rows,     \* the row table built for one image
    parse,    \* the locals of main while the file is parsed
    bits      \* the bit string of one image's sub-blocks and the codes fetched from it

vars == <<dec, blocks, play, obs, rows, parse, bits>>

\* the value of the variables of a part of main that is not running
Idle == [pc |-> "idle"]

(***************************************************************************)
(* Bounds of the model.                                                    *)
(***************************************************************************)
MaxLzwMin == 2          \* lzw_min is drawn from 1..MaxLzwMin
MaxColorBits == 2       \* the color table has 0 or 2^k entries, k in 1..MaxColorBits
MaxDim == 2             \* width and height of the decoded image, 1..MaxDim
MaxPayloadBytes == 2    \* bytes of compressed payload of a fresh decode
CanvasWidth == 2        \* canvas_width of the played file
CanvasHeight == 3       \* canvas_height of the played file
MaxLeft == 1            \* left of a played image, 0..MaxLeft
MaxTop == 1             \* top of a played image, 0..MaxTop
MaxWidth == 2           \* width of a played image, 1..MaxWidth
MaxImgHeight == 3       \* height of a played image, 1..MaxImgHeight
MaxPixels == 3          \* width * height of a played image is at most MaxPixels
MaxIndex == 1           \* the indices of a played image are in 0..MaxIndex
MaxBlocks == 2          \* blocks in the played block list, 1..MaxBlocks
MaxHeight == 32         \* heights of the images whose row table is built, 0..MaxHeight
MaxCodeFan == 8         \* code sizes with 2^code_size <= MaxCodeFan are enumerated in full
DeepPrefix == 4089      \* data codes 0 consumed before the deep start state
DeepPayloadBytes == 5633 \* bytes of compressed payload of the deep decode
MaxChunks == 3          \* blocks of the parsed file after its header, 0..MaxChunks
MaxSubBlocks == 2       \* data sub-blocks of the payload whose codes are fetched
MaxSubBlockBytes == 2   \* bytes of one such sub-block, 1..MaxSubBlockBytes

(***************************************************************************)
(* Constants of the program.                                               *)
(***************************************************************************)
MaxCodeSize == 12       \* "code_size < 12"
MaxTableEntries == 4096 \* "table.size() >= 4096"

Pow2(n) == 2 ^ n

(***************************************************************************)
(* std::unordered_map<int, std::vector<int>>: a function on its key set.   *)
(* operator[] on a missing key inserts an empty vector.                    *)
(***************************************************************************)
HasKey(t, k) == k \in DOMAIN t
Put(t, k, v) == (k :> v) @@ t
Touch(t, k) == IF HasKey(t, k) THEN t ELSE Put(t, k, <<>>)
TableSize(t) == Cardinality(DOMAIN t)

(***************************************************************************)
(* v[0] of a std::vector<int>.  On an empty vector the read is undefined   *)
(* behaviour: ub says what the build made of it, a crash or some int.      *)
(***************************************************************************)
GarbageValues == {0, 255}
UBOutcomes == {[crash |-> TRUE, val |-> 0]}
                  \cup {[crash |-> FALSE, val |-> v] : v \in GarbageValues}
NoCrash == [crash |-> FALSE, val |-> 0]
Front(v, ub) == IF Len(v) > 0 THEN v[1] ELSE ub.val
FrontCrashes(v, ub) == Len(v) = 0 /\ ub.crash

init_table(ncolors, clear_code, eoi_code) ==
    LET palette == [i \in 0..(ncolors - 1) |-> <<i>>]
    IN  Put(Put(palette, clear_code, <<>>), eoi_code, <<>>)

ClearCode(d) == Pow2(d.lzw_min)
EoiCode(d) == ClearCode(d) + 1
FirstCodeSize(d) == d.lzw_min + 1

(***************************************************************************)
(* fetch_code: pos -= code_size, then stream.substr(pos, code_size).  With *)
(* pos negative substr throws std::out_of_range, which nothing catches.    *)
(* The bits themselves are the input: each is read at most once, so the    *)
(* value of a fetch is drawn when it is read.                              *)
(***************************************************************************)
\* fetch_code reading on when pos is past the start of the string
FetchNeverThrows(d) == FALSE

FetchThrows(d) == d.pos < d.code_size
Terminated(d, what) == [d EXCEPT !.pc = "terminated", !.last = what]

\* lines 358-370: the locals before the first fetch_code
StartDecode(lzw_min, ncolors, width, height, nbytes) ==
    [lzw_min |-> lzw_min, ncolors |-> ncolors, width |-> width, height |-> height,
     code_size |-> lzw_min + 1,
     table |-> init_table(ncolors, Pow2(lzw_min), Pow2(lzw_min) + 1),
     table_index |-> Pow2(lzw_min) + 2,
     prev |-> 0,
     index_stream |-> <<>>,
     pos |-> 8 * nbytes,
     pc |-> "first",
     last |-> "none"]

\* line 368: the first code is fetched and dropped
FirstFetch(d) ==
    IF FetchThrows(d) THEN Terminated(d, "throw")
    ELSE [d EXCEPT !.pos = @ - d.code_size, !.pc = "literal", !.last = "first"]

\* lines 372-374: the first color code
LiteralFetch(d, code) ==
    IF FetchThrows(d) THEN Terminated(d, "throw")
    ELSE [d EXCEPT !.pos = @ - d.code_size,
                   !.index_stream = Append(@, code),
                   !.prev = code,
                   !.pc = "loop", !.last = "literal"]

\* ClearBranch without line 391, table_index = eoi_code + 1
ClearBranchKeepsIndex(d, lit) ==
    LET r == [d EXCEPT !.code_size = FirstCodeSize(d),
                       !.table = init_table(d.ncolors, ClearCode(d), EoiCode(d))]
    IN  IF FetchThrows(r) THEN Terminated(r, "clear")
        ELSE [r EXCEPT !.pos = @ - r.code_size,
                       !.index_stream = Append(@, lit),
                       !.prev = lit,
                       !.last = "clear"]

\* lines 385-398: the clear code branch, lit is the code fetched at line 393
ClearBranch(d, lit) ==
    LET r == [d EXCEPT !.code_size = FirstCodeSize(d),
                       !.table = init_table(d.ncolors, ClearCode(d), EoiCode(d)),
                       !.table_index = EoiCode(d) + 1]
    IN  IF FetchThrows(r) THEN Terminated(r, "clear")
        ELSE [r EXCEPT !.pos = @ - r.code_size,
                       !.index_stream = Append(@, lit),
                       !.prev = lit,
                       !.last = "clear"]

\* Advance without the test code_size < 12
AdvanceUncapped(d, code) ==
    [d EXCEPT !.code_size = IF TableSize(d.table) = Pow2(d.code_size)
                            THEN @ + 1 ELSE @,
              !.table_index = @ + 1,
              !.prev = code,
              !.last = "data"]

\* lines 424-430: the growth of code_size, table_index++ and prev = code
Advance(d, code) ==
    [d EXCEPT !.code_size = IF TableSize(d.table) = Pow2(d.code_size)
                               /\ d.code_size < MaxCodeSize
                            THEN @ + 1 ELSE @,
              !.table_index = @ + 1,
              !.prev = code,
              !.last = "data"]

\* lines 410-416: code is not a key of the table
NewCodeBranch(d, code, ub) ==
    LET t1 == Touch(Touch(d.table, d.prev), code)
        seq == t1[d.prev]
        t2 == Put(t1, code, seq)
        entry == Append(seq, Front(t2[d.prev], ub))
    IN  IF FrontCrashes(t2[d.prev], ub) THEN [d EXCEPT !.table = t2, !.pc = "crashed", !.last = "data"]
        ELSE Advance([d EXCEPT !.table = Put(t2, code, entry),
                               !.index_stream = @ \o entry,
                               !.table_index = code], code)

\* lines 417-422: code is a key of the table
KnownCodeBranch(d, code, ub) ==
    LET out == d.index_stream \o d.table[code]
        t1 == Touch(Touch(d.table, d.table_index), d.prev)
        t2 == Put(t1, d.table_index, t1[d.prev])
        entry == Append(t2[d.table_index], Front(t2[code], ub))
    IN  IF FrontCrashes(t2[code], ub)
        THEN [d EXCEPT !.table = t2, !.index_stream = out, !.pc = "crashed", !.last = "data"]
        ELSE Advance([d EXCEPT !.table = Put(t2, d.table_index, entry),
                               !.index_stream = out], code)

\* lines 381-433: one iteration of the decode loop on the fetched code
LoopBody(d, code, lit, ub) ==
    IF FetchThrows(d) THEN Terminated(d, "throw")
    ELSE LET f == [d EXCEPT !.pos = @ - d.code_size]
         IN  IF code = ClearCode(d) THEN ClearBranch(f, lit)
             ELSE IF code = EoiCode(d) THEN [f EXCEPT !.pc = "decoded", !.last = "eoi"]
             ELSE IF ~HasKey(f.table, code) THEN NewCodeBranch(f, code, ub)
             ELSE KnownCodeBranch(f, code, ub)

\* the assert compiled out
AssertSkipped(d) == TRUE

\* line 448: assert(i.index.size() == i.width * i.height)
AssertHolds(d) == Len(d.index_stream) = d.width * d.height

\* lines 447-449: i.index = index_stream, the assert and the push_back
PushImage(d, bs) ==
    IF AssertHolds(d)
    THEN <<[d EXCEPT !.pc = "pushed", !.last = "push"],
           Append(bs, [type |-> "IMAGE", width |-> d.width, height |-> d.height,
                       index |-> d.index_stream])>>
    ELSE <<[d EXCEPT !.pc = "aborted", !.last = "assert"], bs>>

(***************************************************************************)
(* The inputs of a decode.  ncolors is i.ct.size(): 2^k entries of a local *)
(* or global color table, or 0 when the file has neither.                  *)
(***************************************************************************)
ColorCounts == {0} \cup {Pow2(k) : k \in 1..MaxColorBits}

\* the values a fetch of `size` bits can return; above MaxCodeFan a sample of them
CodeChoices(d, size) ==
    IF Pow2(size) <= MaxCodeFan THEN 0..(Pow2(size) - 1)
    ELSE {0, 1, ClearCode(d), EoiCode(d), d.table_index - 1, d.table_index,
          d.table_index + 1, Pow2(size) - 1} \cap 0..(Pow2(size) - 1)

FreshStarts ==
    {StartDecode(m, n, w, h, b) :
        m \in 1..MaxLzwMin, n \in ColorCounts, w \in 1..MaxDim, h \in 1..MaxDim,
        b \in 0..MaxPayloadBytes}

\* the decoder after the clear code, the literal 0 and n more codes 0
RECURSIVE ZeroRun(_, _)
ZeroRun(d, n) ==
    IF n = 0 THEN d
    ELSE IF n = 1 THEN LoopBody(d, 0, 0, NoCrash)
    ELSE LET half == ZeroRun(d, n \div 2)
         IN  IF half.pc # "loop" THEN half ELSE ZeroRun(half, n - (n \div 2))

DeepStart ==
    ZeroRun(LiteralFetch(FirstFetch(StartDecode(2, 4, 1, 1, DeepPayloadBytes)), 0),
            DeepPrefix)

Init ==
    /\ dec \in FreshStarts \cup {DeepStart}
    /\ blocks = <<>>
    /\ play = Idle /\ obs = Idle /\ rows = Idle /\ parse = Idle /\ bits = Idle

First ==
    /\ dec.pc = "first"
    /\ dec' = FirstFetch(dec)
    /\ UNCHANGED <<blocks, play, obs, rows, parse, bits>>

Literal ==
    /\ dec.pc = "literal"
    /\ \E code \in CodeChoices(dec, dec.code_size) : dec' = LiteralFetch(dec, code)
    /\ UNCHANGED <<blocks, play, obs, rows, parse, bits>>

Loop ==
    /\ dec.pc = "loop"
    /\ \E code \in CodeChoices(dec, dec.code_size) :
         \E lit \in IF code = ClearCode(dec) THEN CodeChoices(dec, FirstCodeSize(dec)) ELSE {0} :
           \E ub \in UBOutcomes : dec' = LoopBody(dec, code, lit, ub)
    /\ UNCHANGED <<blocks, play, obs, rows, parse, bits>>

Push ==
    /\ dec.pc = "decoded"
    /\ dec' = PushImage(dec, blocks)[1]
    /\ blocks' = PushImage(dec, blocks)[2]
    /\ UNCHANGED <<play, obs, rows, parse, bits>>

Next == First \/ Literal \/ Loop \/ Push

Spec == Init /\ [][Next]_vars

\* main is one thread that runs on until it ends: a step that can be taken is taken
SpecLive == Spec /\ WF_vars(Next)

(***************************************************************************)
(* The decoder's claims.                                                   *)
(***************************************************************************)
Reserved(d) == {ClearCode(d), EoiCode(d)}

\* C1: every Image block in the block list has exactly width * height
\* indices, and a decode whose output has another length ends in the failed
\* assert with nothing pushed.
C1_IndexCountMatches ==
    /\ \A k \in 1..Len(blocks) :
          Len(blocks[k].index) = blocks[k].width * blocks[k].height
    /\ dec.pc = "pushed" =>
          /\ Len(dec.index_stream) = dec.width * dec.height
          /\ blocks = <<[type |-> "IMAGE", width |-> dec.width, height |-> dec.height,
                         index |-> dec.index_stream]>>
    /\ dec.pc = "aborted" =>
          /\ Len(dec.index_stream) # dec.width * dec.height
          /\ blocks = <<>>
    /\ dec.last \in {"push", "assert"} => dec.pc \in {"pushed", "aborted"}

C1_Witness ==
    /\ dec.pc = "pushed"
    /\ Len(blocks) = 1
    /\ Len(blocks[1].index) = 4

\* C2: after every decode step the code table has at most 4096 entries.
C2_TableBounded == TableSize(dec.table) <= MaxTableEntries

\* C3: code_size stays within [lzw_min + 1, 12], equals lzw_min + 1 right
\* after a clear code, and no step other than a clear code lowers it.
C3_CodeSize ==
    /\ [](/\ FirstCodeSize(dec) <= dec.code_size
          /\ dec.code_size <= MaxCodeSize
          /\ dec.last = "clear" => dec.code_size = FirstCodeSize(dec))
    /\ [][dec'.last # "clear" => dec'.code_size >= dec.code_size]_vars

C3_Witness ==
    /\ dec.last = "clear"
    /\ dec.pc = "loop"
    /\ dec.code_size = FirstCodeSize(dec)
    /\ Len(dec.index_stream) > DeepPrefix

\* C8: no data step takes the (empty) entry of clear_code or eoi_code as
\* prev's sequence, neither to build the new table entry from it nor to read
\* its first symbol; prev is the code of the step before, the one read right
\* after a clear code included.
C8_ReservedNeverData ==
    [][dec'.last = "data" => dec.prev \notin Reserved(dec)]_vars

\* C9: a clear code followed by a palette code L leaves the table, code_size,
\* table_index and prev as the start of the stream followed by L does, and
\* appends to the output what the start of the stream puts out.
AtStart(d, L) ==
    LiteralFetch(FirstFetch(StartDecode(d.lzw_min, d.ncolors, d.width, d.height, 2)), L)

C9_ClearLikeStart ==
    [][(/\ dec'.last = "clear"
        /\ dec'.pc = "loop"
        /\ dec'.prev \in (0..(dec.ncolors - 1)) \ Reserved(dec))
       => /\ dec'.table = AtStart(dec, dec'.prev).table
          /\ dec'.code_size = AtStart(dec, dec'.prev).code_size
          /\ dec'.table_index = AtStart(dec, dec'.prev).table_index
          /\ dec'.prev = AtStart(dec, dec'.prev).prev
          /\ dec'.index_stream = dec.index_stream \o AtStart(dec, dec'.prev).index_stream
          /\ dec'.table = init_table(dec.ncolors, ClearCode(dec), EoiCode(dec))
          /\ dec'.code_size = dec.lzw_min + 1
          /\ dec'.table_index = EoiCode(dec) + 1
          /\ dec'.index_stream = Append(dec.index_stream, dec'.prev)
          /\ TableSize(dec'.table) <= TableSize(dec.table)]_vars

C9_Witness ==
    /\ dec.last = "clear"
    /\ dec.pc = "loop"
    /\ dec.prev = 1
    /\ dec.table_index = EoiCode(dec) + 1
    /\ Len(dec.index_stream) > DeepPrefix

(***************************************************************************)
(* The reference LZW decoder of the format, one step on a decoder state d  *)
(* whose table_index is next_free.  After a clear code the code that       *)
(* follows is read as any other code: a palette code is emitted and        *)
(* becomes prev, a clear code resets again, eoi_code stops.                *)
(***************************************************************************)
RefGrow(d, code, entry, out) ==
    [d EXCEPT !.table = Put(d.table, d.table_index, entry),
              !.index_stream = @ \o out,
              !.table_index = @ + 1,
              !.code_size = IF d.table_index + 1 = Pow2(d.code_size)
                               /\ d.code_size < MaxCodeSize THEN @ + 1 ELSE @,
              !.prev = code,
              !.pos = @ - d.code_size,
              !.last = "data"]

RefStep(d, code, lit) ==
    IF code = ClearCode(d)
    THEN LET r == [d EXCEPT !.table = init_table(d.ncolors, ClearCode(d), EoiCode(d)),
                            !.code_size = FirstCodeSize(d),
                            !.table_index = EoiCode(d) + 1,
                            !.pos = @ - d.code_size - FirstCodeSize(d),
                            !.last = "clear"]
         IN  IF lit = EoiCode(d) THEN [r EXCEPT !.pc = "decoded"]
             ELSE IF lit = ClearCode(d) THEN r
             ELSE [r EXCEPT !.index_stream = Append(@, lit), !.prev = lit]
    ELSE IF code = EoiCode(d)
    THEN [d EXCEPT !.pc = "decoded", !.pos = @ - d.code_size, !.last = "eoi"]
    ELSE IF HasKey(d.table, code)
    THEN RefGrow(d, code, Append(d.table[d.prev], d.table[code][1]), d.table[code])
    ELSE RefGrow(d, code, Append(d.table[d.prev], d.table[d.prev][1]),
                 Append(d.table[d.prev], d.table[d.prev][1]))

\* the decoder states a well-formed stream leads to: the palette has
\* 2^lzw_min colors, the codes 0..next_free-1 are the keys of the table, the
\* entries of the data codes are not empty and prev is a data code
WellFormedState(d) ==
    /\ d.pc = "loop"
    /\ d.ncolors = Pow2(d.lzw_min)
    /\ TableSize(d.table) < MaxTableEntries
    /\ DOMAIN d.table = 0..(d.table_index - 1)
    /\ \A k \in DOMAIN d.table : k \notin Reserved(d) => Len(d.table[k]) > 0
    /\ d.prev \in DOMAIN d.table
    /\ d.prev \notin Reserved(d)

\* the codes a well-formed stream can hold next: a key of the table or next_free
WellFormedCodes(d) ==
    {c \in CodeChoices(d, d.code_size) : HasKey(d.table, c) \/ c = d.table_index}

\* the codes a well-formed stream can hold after a clear code
WellFormedAfterClear(d) ==
    {c \in CodeChoices(d, FirstCodeSize(d)) : c < ClearCode(d) \/ c \in Reserved(d)}

\* C14: from a state of a well-formed stream, with enough bits left, a step
\* of the decoder on a well-formed code gives the table, code_size,
\* next_free, prev and output of the reference decoder, and a state of a
\* well-formed stream again.
C14_MatchesReference ==
    [][\A code \in WellFormedCodes(dec) :
         \A lit \in IF code = ClearCode(dec) THEN WellFormedAfterClear(dec) ELSE {0} :
           \A ub \in UBOutcomes :
             (/\ WellFormedState(dec)
              /\ dec.pos >= dec.code_size + FirstCodeSize(dec)
              /\ dec' = LoopBody(dec, code, lit, ub))
             => /\ dec' = RefStep(dec, code, lit)
                /\ dec'.pc = "loop" => (WellFormedState(dec') \/ TableSize(dec'.table) = MaxTableEntries)]_vars

\* C15: a data step that grows the table at a known code or at next_free,
\* prev being a data code of the table, increments code_size exactly when next_free, after the step, equals
\* 2^code_size and code_size < 12, whatever lzw_min and ncolors are.
C15_GrowthAtNextFree ==
    [][(/\ dec'.last = "data"
        /\ dec'.pc = "loop"
        /\ HasKey(dec.table, dec.prev)
        /\ dec.prev \notin Reserved(dec)
        /\ HasKey(dec.table, dec'.prev) \/ dec'.prev = dec.table_index)
       => /\ dec'.table_index = dec.table_index + 1
          /\ dec'.code_size =
                IF dec'.table_index = Pow2(dec.code_size) /\ dec.code_size < MaxCodeSize
                THEN dec.code_size + 1 ELSE dec.code_size]_vars

\* C16: a code that is not clear_code, not eoi_code, not a key of the table
\* and not next_free ends the decode: nothing is put out for it, no entry is
\* installed at it and table_index is not moved to it.
C16_UnknownCodeFails ==
    [][(/\ dec'.last = "data"
        /\ dec'.pc = "loop"
        /\ ~HasKey(dec.table, dec'.prev)
        /\ dec'.prev # dec.table_index)
       => /\ dec'.pc # "loop"
          /\ dec'.index_stream = dec.index_stream
          /\ ~HasKey(dec'.table, dec'.prev)
          /\ dec'.table_index = dec.table_index]_vars

\* C21: every index of a decoded image is an index into its color table,
\* 0 <= index < ncolors.
C21_IndicesInPalette ==
    dec.pc = "pushed" =>
        /\ \A k \in 1..Len(dec.index_stream) : dec.index_stream[k] \in 0..(dec.ncolors - 1)
        /\ \A b \in 1..Len(blocks) :
              \A k \in 1..Len(blocks[b].index) : blocks[b].index[k] \in 0..(dec.ncolors - 1)

\* the decode is running: a fetch_code is still to come
Running(d) == d.pc \in {"first", "literal", "loop"}

\* C22: the decode ends: every step of the loop takes bits off pos, which
\* never goes below 0, the start of the payload; when the bits left are
\* fewer than a code the step ends the decode in the uncaught exception of
\* fetch_code; an Image is appended only after eoi_code was read; and every
\* decode reaches an end.
C22_DecodeEnds ==
    /\ [](dec.pos >= 0)
    /\ [](dec.pc = "terminated" => blocks = <<>>)
    /\ [](Len(blocks) > 0 => dec.pc = "pushed" /\ dec.last = "push")
    /\ [][Running(dec) => (dec'.pos < dec.pos \/ ~Running(dec'))]_vars
    /\ [][(Running(dec) /\ dec.pos < dec.code_size)
             => (dec'.pc = "terminated" /\ dec'.pos = dec.pos /\ blocks' = blocks)]_vars
    /\ [][dec'.pc = "decoded" => (dec'.last = "eoi" /\ dec.pos >= dec.code_size)]_vars
    /\ [][dec'.pc = "pushed" => dec.pc = "decoded"]_vars
    /\ <>(dec.pc \in {"pushed", "aborted", "terminated", "crashed"})

C22_Witness ==
    /\ dec.pc = "terminated"
    /\ dec.last = "throw"
    /\ dec.pos > 0
    /\ dec.pos < dec.code_size
    /\ Len(dec.index_stream) >= 3
    /\ blocks = <<>>

(***************************************************************************)
(* The row table of an image, lines 668-689.  row2[y] is the row of the    *)
(* index stream that output row y is read from.                            *)
(***************************************************************************)
\* PassRows with the loop test i <= img_height
PassRowsInclusive(start, step, h) ==
    [k \in 1..(IF h >= start THEN ((h - start) \div step) + 1 ELSE 0)
        |-> start + (k - 1) * step]

\* the values of i of "for (int i = start; i < img_height; i += step)"
PassRows(start, step, h) ==
    [k \in 1..(IF h > start THEN ((h - start - 1) \div step) + 1 ELSE 0)
        |-> start + (k - 1) * step]

\* the four passes with passes 2 and 3 taken in the other order
InterlaceOrderSwapped(h) ==
    PassRows(0, 8, h) \o PassRows(2, 4, h) \o PassRows(4, 8, h) \o PassRows(1, 2, h)

\* lines 676-683: the output rows in the order the four passes assign them
InterlaceOrder(h) ==
    PassRows(0, 8, h) \o PassRows(4, 8, h) \o PassRows(2, 4, h) \o PassRows(1, 2, h)

\* lines 671-689: row2[i] = row1[j] = j, j counting the assignments; an entry no
\* pass assigns keeps the indeterminate value of the array, shown as -1
Row2(h, interlace) ==
    LET order == InterlaceOrder(h)
        at(y) == {k \in 1..Len(order) : order[k] = y}
    IN  [y \in 0..(h - 1) |->
            IF ~interlace THEN y
            ELSE IF at(y) = {} THEN -1
            ELSE (CHOOSE k \in at(y) : \A m \in at(y) : m <= k) - 1]

InitRows ==
    /\ rows \in {[pc |-> "start", img_height |-> h, interlace |-> il, row2 |-> <<>>] :
                   h \in 0..MaxHeight, il \in BOOLEAN}
    /\ dec = Idle /\ blocks = <<>> /\ play = Idle /\ obs = Idle
    /\ parse = Idle /\ bits = Idle

BuildRows ==
    /\ rows.pc = "start"
    /\ rows' = [rows EXCEPT !.pc = "built", !.row2 = Row2(rows.img_height, rows.interlace)]
    /\ UNCHANGED <<dec, blocks, play, obs, parse, bits>>

NextRows == BuildRows

SpecRows == InitRows /\ [][NextRows]_vars

\* the row table of an image of height 8 as a tuple
Rows8 == <<rows.row2[0], rows.row2[1], rows.row2[2], rows.row2[3],
           rows.row2[4], rows.row2[5], rows.row2[6], rows.row2[7]>>

\* C7 as stated: for an interlaced image of height 8, output rows 0..7 are
\* read from source rows 0,4,2,6,1,5,3,7.
C7_AsStated ==
    (rows.pc = "built" /\ rows.interlace /\ rows.img_height = 8)
        => Rows8 = <<0, 4, 2, 6, 1, 5, 3, 7>>

\* C7 amended: for an interlaced image of height 8, output rows 0..7 are
\* read from source rows 0,4,2,5,1,6,3,7 (stream rows 0,1 are output rows 0,4;
\* 2,3 are output rows 2,6; 4..7 are output rows 1,3,5,7).
C7_Height8Rows ==
    (rows.pc = "built" /\ rows.interlace /\ rows.img_height = 8)
        => Rows8 = <<0, 4, 2, 5, 1, 6, 3, 7>>

C7_Witness ==
    /\ rows.pc = "built"
    /\ rows.interlace
    /\ rows.img_height = 8
    /\ rows.row2[3] = 5

(***************************************************************************)
(* Playback, lines 632-789: one action per iteration of while (!quit).     *)
(***************************************************************************)
\* lines 178-181: (a << 24) | (r << 16) | (g << 8) | b as a uint32_t, written
\* as its four bytes from the most significant one down
color_rgba(r, g, b, a) == <<a % 256, r % 256, g % 256, b % 256>>

\* an indeterminate uint32_t
GarbageWord(v) == <<v, v, v, v>>

\* the global color table of the played file (gct_flag set, N = 1)
GlobalColorTable ==
    <<[r |-> 255, g |-> 0, b |-> 0], [r |-> 0, g |-> 255, b |-> 0],
      [r |-> 0, g |-> 0, b |-> 255], [r |-> 16, g |-> 32, b |-> 48]>>

\* lines 644-645 with bkgd_color_idx = 3
BkgdColor ==
    LET bkgd == GlobalColorTable[3 + 1] IN color_rgba(bkgd.r, bkgd.g, bkgd.b, 255)

\* lines 632-648: the locals before the loop
StartPlay ==
    [i |-> 0, delay |-> 0, disposal |-> 2, doRender |-> FALSE,
     img_left |-> 0, img_top |-> 0, img_width |-> 0, img_height |-> 0,
     transparent |-> FALSE, trans_idx |-> 0,
     canvas_width |-> CanvasWidth, canvas_height |-> CanvasHeight,
     bkgd_color |-> BkgdColor,
     pixels |-> [k \in 1..(CanvasWidth * CanvasHeight) |-> BkgdColor],
     prev |-> <<>>,
     quit |-> FALSE,
     pc |-> "loop"]

\* pixels[offset] = c; outside the vector the write is undefined behaviour
\* and, when it does not crash, lands outside the canvas
WritePixel(px, offset, c, ub) ==
    IF offset + 1 \in DOMAIN px
    THEN [pixels |-> [px EXCEPT ![offset + 1] = c], crashed |-> FALSE]
    ELSE [pixels |-> px, crashed |-> ub.crash]

\* lines 695-702 for one (y, x); ct[index] past the table is undefined behaviour
DrawOne(px, img, p, row2, y, x, ub) ==
    LET index == img.index[row2[y] * p.img_width + x + 1]
        inCt == (index + 1) \in DOMAIN img.ct
        c == IF inCt
             THEN color_rgba(img.ct[index + 1].r, img.ct[index + 1].g, img.ct[index + 1].b, 255)
             ELSE GarbageWord(ub.val)
        offset == (p.img_top + y) * p.canvas_width + (p.img_left + x)
    IN  IF (p.transparent /\ index # p.trans_idx) \/ ~p.transparent
        THEN IF ~inCt /\ ub.crash THEN [pixels |-> px, crashed |-> TRUE]
             ELSE WritePixel(px, offset, c, ub)
        ELSE [pixels |-> px, crashed |-> FALSE]

\* lines 691-704: the draw loops from the k-th (y, x) on, row by row
RECURSIVE DrawFrom(_, _, _, _, _, _)
DrawFrom(px, img, p, row2, k, ub) ==
    IF k >= p.img_width * p.img_height THEN [pixels |-> px, crashed |-> FALSE]
    ELSE LET r == DrawOne(px, img, p, row2, k \div p.img_width, k % p.img_width, ub)
         IN  IF r.crashed THEN r ELSE DrawFrom(r.pixels, img, p, row2, k + 1, ub)

\* lines 768-775: the clearing loops from the k-th (y, x) on
RECURSIVE ClearFrom(_, _, _, _)
ClearFrom(px, p, k, ub) ==
    IF k >= p.img_width * p.img_height THEN [pixels |-> px, crashed |-> FALSE]
    ELSE LET offset == (p.img_top + (k \div p.img_width)) * p.canvas_width
                         + (p.img_left + (k % p.img_width))
             r == WritePixel(px, offset, p.bkgd_color, ub)
         IN  IF r.crashed THEN r ELSE ClearFrom(r.pixels, p, k + 1, ub)

\* lines 759-783: the switch on disposal
Dispose(p, ub) ==
    IF p.disposal = 2 THEN ClearFrom(p.pixels, p, 0, ub)
    ELSE IF p.disposal = 3 THEN [pixels |-> p.prev, crashed |-> FALSE]
    ELSE [pixels |-> p.pixels, crashed |-> FALSE]

\* the position of the first Image block of the list, 0 when there is none
FirstImage(bs) ==
    LET at == {k \in 1..Len(bs) : bs[k].type = "IMAGE"}
    IN  IF at = {} THEN 0 ELSE CHOOSE k \in at : \A m \in at : k <= m

\* NextIndex going back to the first Image at the end of the list
NextIndexFirstImage(p, bs) ==
    IF p.i + 1 = Len(bs) /\ FirstImage(bs) # 0 THEN FirstImage(bs) - 1
    ELSE (p.i + 1) % Len(bs)

\* lines 656-657
NextIndex(p, bs) == (p.i + 1) % Len(bs)

\* lines 738-748 and the loop test: the iteration ends the loop when quit is set
Polled(p, quit) == [p EXCEPT !.quit = quit, !.pc = IF quit THEN "exited" ELSE "loop"]

\* lines 656-706 and 738-788: the iteration for an Image block.  The result
\* holds the locals after the iteration and the canvas as it was presented.
ImageIteration(p, bs, quit, ub) ==
    LET img == bs[p.i + 1]
        p1 == [p EXCEPT !.i = NextIndex(p, bs),
                        !.img_left = img.left, !.img_top = img.top,
                        !.img_width = img.width, !.img_height = img.height]
        drawn == DrawFrom(p.pixels, img, p1, Row2(img.height, img.interlace), 0, ub)
        p2 == Polled([p1 EXCEPT !.pixels = drawn.pixels, !.doRender = TRUE], quit)
        \* line 755: &pixels[0] of an empty vector is undefined behaviour
        presentCrashes == Len(p2.pixels) = 0 /\ ub.crash
        disposed == Dispose(p2, ub)
    IN  IF drawn.crashed \/ presentCrashes
        THEN [play |-> [p2 EXCEPT !.pc = "crashed"], shown |-> <<>>]
        ELSE IF disposed.crashed
        THEN [play |-> [p2 EXCEPT !.pixels = disposed.pixels, !.pc = "crashed"],
              shown |-> p2.pixels]
        ELSE [play |-> [p2 EXCEPT !.pixels = disposed.pixels,
                                  !.prev = disposed.pixels,
                                  !.doRender = FALSE],
              shown |-> p2.pixels]

\* GraphicControlIteration with delay = gc->delay_time, not scaled
GraphicControlIterationRawDelay(p, bs, quit) ==
    LET gc == bs[p.i + 1]
    IN  Polled([p EXCEPT !.i = NextIndex(p, bs),
                         !.disposal = gc.disposal_method,
                         !.transparent = gc.transparent,
                         !.delay = gc.delay_time,
                         !.trans_idx = IF gc.transparent THEN gc.color_index ELSE @],
               quit)

\* lines 656-657, 708-720 and 738-753: the iteration for a GraphicControl block
GraphicControlIteration(p, bs, quit) ==
    LET gc == bs[p.i + 1]
    IN  Polled([p EXCEPT !.i = NextIndex(p, bs),
                         !.disposal = gc.disposal_method,
                         !.transparent = gc.transparent,
                         !.delay = gc.delay_time * 10,
                         !.trans_idx = IF gc.transparent THEN gc.color_index ELSE @],
               quit)

\* lines 656-657, 721-736 and 738-753: an ApplicationExtension or a Comment
OtherIteration(p, bs, quit) == Polled([p EXCEPT !.i = NextIndex(p, bs)], quit)

(***************************************************************************)
(* The block lists played: what the parser can have pushed.                *)
(***************************************************************************)
RECURSIVE IndexStreams(_)
IndexStreams(n) ==
    IF n = 0 THEN {<<>>}
    ELSE {Append(ix, v) : ix \in IndexStreams(n - 1), v \in 0..MaxIndex}

Shapes == {wh \in (1..MaxWidth) \X (1..MaxImgHeight) : wh[1] * wh[2] <= MaxPixels}

Images ==
    UNION {{[type |-> "IMAGE", left |-> l, top |-> t, width |-> wh[1], height |-> wh[2],
             interlace |-> il, ct |-> GlobalColorTable, index |-> ix] :
              ix \in IndexStreams(wh[1] * wh[2])} :
           l \in 0..MaxLeft, t \in 0..MaxTop, wh \in Shapes, il \in BOOLEAN}

GraphicControls ==
    {[type |-> "GRAPHIC CONTROL", transparent |-> tr, disposal_method |-> dm,
      delay_time |-> 5, color_index |-> ci] :
        tr \in BOOLEAN, dm \in 0..3, ci \in 0..MaxIndex}

OtherBlocks == {[type |-> "APPLICATION EXTENSION"], [type |-> "COMMENT EXTENSION"]}

AllBlocks == Images \cup GraphicControls \cup OtherBlocks

RECURSIVE BlockLists(_)
BlockLists(n) ==
    IF n = 0 THEN {<<>>}
    ELSE {Append(bs, b) : bs \in BlockLists(n - 1), b \in AllBlocks}

\* a GraphicControl, an ApplicationExtension or Comment, then a one-pixel Image
DelayTimes == {0, 5, 65535}

ControlledLists ==
    {<<[g EXCEPT !.delay_time = dt], o, im>> :
        g \in GraphicControls, dt \in DelayTimes, o \in OtherBlocks,
        im \in {x \in Images : x.left = 0 /\ x.top = 0 /\ x.width * x.height = 1}}

InitPlay ==
    /\ blocks \in UNION {BlockLists(n) : n \in 1..MaxBlocks} \cup ControlledLists
    /\ play = StartPlay
    /\ obs = [last |-> "none", block |-> 0, gc_seen |-> FALSE, gc |-> 0, frames |-> 0,
              before |-> <<>>, shown |-> <<>>]
    /\ dec = Idle /\ rows = Idle /\ parse = Idle /\ bits = Idle

Current == blocks[play.i + 1]

PlayImage ==
    /\ play.pc = "loop"
    /\ Current.type = "IMAGE"
    /\ \E quit \in BOOLEAN : \E ub \in UBOutcomes :
         LET r == ImageIteration(play, blocks, quit, ub)
         IN  /\ play' = r.play
             /\ obs' = [obs EXCEPT !.last = "IMAGE", !.block = play.i + 1,
                                   !.frames = IF @ < 2 THEN @ + 1 ELSE @,
                                   !.before = play.pixels, !.shown = r.shown]
    /\ UNCHANGED <<dec, blocks, rows, parse, bits>>

PlayGraphicControl ==
    /\ play.pc = "loop"
    /\ Current.type = "GRAPHIC CONTROL"
    /\ \E quit \in BOOLEAN : play' = GraphicControlIteration(play, blocks, quit)
    /\ obs' = [obs EXCEPT !.last = "GRAPHIC CONTROL", !.block = play.i + 1,
                          !.gc_seen = TRUE, !.gc = play.i + 1]
    /\ UNCHANGED <<dec, blocks, rows, parse, bits>>

PlayOther ==
    /\ play.pc = "loop"
    /\ Current.type \in {"APPLICATION EXTENSION", "COMMENT EXTENSION"}
    /\ \E quit \in BOOLEAN : play' = OtherIteration(play, blocks, quit)
    /\ obs' = [obs EXCEPT !.last = Current.type, !.block = play.i + 1]
    /\ UNCHANGED <<dec, blocks, rows, parse, bits>>

NextPlay == PlayImage \/ PlayGraphicControl \/ PlayOther

SpecPlay == InitPlay /\ [][NextPlay]_vars

(***************************************************************************)
(* The playback claims.  obs.before is the canvas before the last          *)
(* iteration, obs.shown the canvas it presented, play.pixels the canvas    *)
(* after its disposal, obs.gc the position of the GraphicControl block     *)
(* processed last.                                                         *)
(***************************************************************************)
Played == blocks[obs.block]
Offsets == 0..(play.canvas_width * play.canvas_height - 1)
PixelAt(px, k) == IF (k + 1) \in DOMAIN px THEN px[k + 1] ELSE <<>>
FramePlayed == obs.last = "IMAGE" /\ play.pc # "crashed"

RectInside(img) ==
    /\ img.left + img.width <= play.canvas_width
    /\ img.top + img.height <= play.canvas_height

InRect(img, k) ==
    /\ (k \div play.canvas_width) \in img.top..(img.top + img.height - 1)
    /\ (k % play.canvas_width) \in img.left..(img.left + img.width - 1)

\* the index of the image at canvas offset k, rows reordered
IndexAt(img, k) ==
    img.index[Row2(img.height, img.interlace)[(k \div play.canvas_width) - img.top]
                  * img.width + ((k % play.canvas_width) - img.left) + 1]

ColorOf(img, index) ==
    IF (index + 1) \in DOMAIN img.ct
    THEN <<255, img.ct[index + 1].r, img.ct[index + 1].g, img.ct[index + 1].b>>
    ELSE <<>>

\* C4: after an Image inside the canvas is composited, every canvas pixel of
\* its rectangle is the opaque ct[index] of its index, or kept when the
\* index is the active transparent index, and every other pixel is kept.
C4_CompositeEffect ==
    (FramePlayed /\ RectInside(Played)) =>
        \A k \in Offsets :
            PixelAt(obs.shown, k) =
                IF InRect(Played, k)
                   /\ ~(play.transparent /\ IndexAt(Played, k) = play.trans_idx)
                THEN ColorOf(Played, IndexAt(Played, k))
                ELSE PixelAt(obs.before, k)

\* C5: after a frame with disposal method 3 the canvas equals the canvas
\* before the frame was drawn, for every frame, the first one included.
C5_RestorePrevious ==
    (FramePlayed /\ play.disposal = 3) => play.pixels = obs.before

\* C6: after a frame with disposal method 2 every canvas pixel in the
\* image's rectangle is the background color and every other pixel is as
\* it was presented.
C6_RestoreBackground ==
    (FramePlayed /\ play.disposal = 2) =>
        \A k \in Offsets :
            PixelAt(play.pixels, k) =
                IF InRect(Played, k) THEN play.bkgd_color ELSE PixelAt(obs.shown, k)

\* C10: a frame played before any GraphicControl has disposal 0 and no
\* transparency, and the canvas after it is the canvas as drawn.
C10_DefaultControl ==
    (FramePlayed /\ ~obs.gc_seen) =>
        /\ play.disposal = 0
        /\ ~play.transparent
        /\ play.pixels = obs.shown

\* C11 as stated: after the last block of the list the next block processed
\* is the first Image of the list.
C11_AsStated ==
    [][(obs.block = Len(blocks) /\ FirstImage(blocks) # 0)
          => obs'.block = FirstImage(blocks)]_vars

\* C11 amended: the blocks are processed in list order and after the last
\* block of the list the next block processed is the first block of the list,
\* whatever its type, so the blocks before the first Image are processed
\* again on every cycle.
C11_RestartsAtFirstBlock ==
    /\ [](play.pc = "loop" => play.i = obs.block % Len(blocks))
    /\ [][/\ obs'.block = (obs.block % Len(blocks)) + 1
          /\ obs'.last = blocks[obs'.block].type
          /\ obs.block = Len(blocks) => obs'.block = 1]_vars

C11_Witness ==
    /\ Len(blocks) = 2
    /\ blocks[1].type = "GRAPHIC CONTROL"
    /\ blocks[2].type = "IMAGE"
    /\ obs.frames >= 1
    /\ obs.block = 1
    /\ obs.last = "GRAPHIC CONTROL"

\* C18: when an Image has been composited after a GraphicControl, the
\* disposal method, the transparency flag, the transparent index (when
\* transparency is on) and the delay are those of the GraphicControl processed
\* last, the delay 10 times its delay field; an ApplicationExtension or a
\* Comment changes none of them, leaves the canvas alone and presents nothing.
C18_LastControlApplies ==
    /\ []((obs.last = "IMAGE" /\ obs.gc # 0) =>
            /\ play.disposal = blocks[obs.gc].disposal_method
            /\ play.transparent = blocks[obs.gc].transparent
            /\ blocks[obs.gc].transparent => play.trans_idx = blocks[obs.gc].color_index
            /\ play.delay = 10 * blocks[obs.gc].delay_time)
    /\ [][obs'.last \in {"APPLICATION EXTENSION", "COMMENT EXTENSION"} =>
            /\ play'.disposal = play.disposal
            /\ play'.transparent = play.transparent
            /\ play'.trans_idx = play.trans_idx
            /\ play'.delay = play.delay
            /\ play'.pixels = play.pixels
            /\ ~play'.doRender
            /\ obs'.frames = obs.frames
            /\ obs'.shown = obs.shown
            /\ obs'.gc = obs.gc]_vars

C18_Witness ==
    /\ FramePlayed
    /\ Len(blocks) = 3
    /\ obs.gc = 1
    /\ blocks[2].type = "COMMENT EXTENSION"
    /\ obs.block = 3
    /\ blocks[1].transparent
    /\ blocks[1].color_index = 1
    /\ blocks[1].disposal_method = 1
    /\ play.trans_idx = 1
    /\ play.delay = 655350

\* the canvas offsets the last iteration wrote to: the draw of every pixel
\* that is not transparent and, with disposal 2, the clearing of every pixel
WrittenOffsets ==
    LET img == Played
        row2 == Row2(img.height, img.interlace)
    IN  {<<y, x>> \in (0..(img.height - 1)) \X (0..(img.width - 1)) :
            \/ ~(play.transparent /\ img.index[row2[y] * img.width + x + 1] = play.trans_idx)
            \/ play.disposal = 2}

\* C20: every canvas write of an Image iteration, drawing or clearing, is at
\* an offset inside the canvas and lands at row top + y, column left + x.
C20_WritesInCanvas ==
    obs.last = "IMAGE" =>
        \A yx \in WrittenOffsets :
            LET offset == (Played.top + yx[1]) * play.canvas_width + (Played.left + yx[2])
            IN  /\ offset \in Offsets
                /\ (offset + 1) \in DOMAIN obs.before
                /\ offset \div play.canvas_width = Played.top + yx[1]
                /\ offset % play.canvas_width = Played.left + yx[2]

\* C19: for every height h >= 1 the row table of an interlaced image is a
\* permutation of 0..h-1: the four passes assign every output row exactly
\* once and no source row twice; for a non-interlaced image the table is the
\* identity.
C19_RowPermutation ==
    (rows.pc = "built" /\ rows.img_height >= 1) =>
        LET h == rows.img_height
            order == InterlaceOrder(h)
        IN  /\ DOMAIN rows.row2 = 0..(h - 1)
            /\ rows.interlace =>
                  /\ Len(order) = h
                  /\ \A y \in 0..(h - 1) : Cardinality({k \in 1..Len(order) : order[k] = y}) = 1
                  /\ \A y \in 0..(h - 1) : rows.row2[y] \in 0..(h - 1)
                  /\ \A y, z \in 0..(h - 1) : rows.row2[y] = rows.row2[z] => y = z
                  /\ {rows.row2[y] : y \in 0..(h - 1)} = 0..(h - 1)
            /\ ~rows.interlace => \A y \in 0..(h - 1) : rows.row2[y] = y

C19_Witness ==
    /\ rows.pc = "built"
    /\ rows.interlace
    /\ rows.img_height = 13
    /\ rows.row2[12] = 3
    /\ rows.row2[11] = 12
    /\ rows.row2[1] = 7

(***************************************************************************)
(* The bit string of an image's payload, lines 341-356, and fetch_code,    *)
(* lines 139-143.  stream is the std::string of '0' and '1', here a        *)
(* sequence of 0 and 1; position p of the string is element p + 1.         *)
(***************************************************************************)
\* std::bitset<8>(b).to_string(): the most significant bit first
BitString(b) == [k \in 1..8 |-> (b \div Pow2(8 - k)) % 2]

\* the loop of line 354 with stream = stream + bits
RECURSIVE AssembleStreamAppended(_)
AssembleStreamAppended(data) ==
    IF data = <<>> THEN <<>>
    ELSE AssembleStreamAppended(SubSeq(data, 1, Len(data) - 1)) \o BitString(data[Len(data)])

\* line 354 for the data bytes in file order: stream = bits + stream
RECURSIVE AssembleStream(_)
AssembleStream(data) ==
    IF data = <<>> THEN <<>>
    ELSE BitString(data[Len(data)]) \o AssembleStream(SubSeq(data, 1, Len(data) - 1))

\* std::stoi(s, nullptr, 2)
RECURSIVE BinaryValue(_)
BinaryValue(s) ==
    IF s = <<>> THEN 0
    ELSE 2 * BinaryValue(SubSeq(s, 1, Len(s) - 1)) + s[Len(s)]

\* lines 139-143: pos -= code_size, then substr(pos, code_size), which throws
\* std::out_of_range when pos, taken as a size_t, is past the string
fetch_code(stream, pos, code_size) ==
    LET p == pos - code_size
    IN  [pos |-> p,
         throws |-> p < 0,
         code |-> IF p < 0 THEN 0 ELSE BinaryValue(SubSeq(stream, p + 1, p + code_size))]

\* lines 343-356: the data bytes of all the sub-blocks, in file order
RECURSIVE Flatten(_)
Flatten(sub_blocks) ==
    IF sub_blocks = <<>> THEN <<>>
    ELSE sub_blocks[1] \o Flatten(SubSeq(sub_blocks, 2, Len(sub_blocks)))

ByteSamples == {1, 68, 128, 165, 255}

RECURSIVE ByteRuns(_)
ByteRuns(n) ==
    IF n = 0 THEN {<<>>}
    ELSE {Append(r, b) : r \in ByteRuns(n - 1), b \in ByteSamples}

RECURSIVE Payloads(_)
Payloads(n) ==
    IF n = 0 THEN {<<>>}
    ELSE {Append(ps, sb) : ps \in Payloads(n - 1),
                           sb \in UNION {ByteRuns(k) : k \in 1..MaxSubBlockBytes}}

(***************************************************************************)
(* The bit accumulator the format describes: bytes are loaded above the    *)
(* bits still held, codes are taken from the low end.                      *)
(***************************************************************************)
RECURSIVE RefLoad(_, _, _)
RefLoad(a, data, code_size) ==
    IF a.nbits >= code_size \/ a.next > Len(data) THEN a
    ELSE RefLoad([acc |-> a.acc + data[a.next] * Pow2(a.nbits),
                  nbits |-> a.nbits + 8,
                  next |-> a.next + 1], data, code_size)

RefFetch(a, data, code_size) ==
    LET l == RefLoad(a, data, code_size)
    IN  IF l.nbits < code_size THEN [a |-> l, runs_out |-> TRUE, code |-> 0]
        ELSE [a |-> [l EXCEPT !.acc = @ \div Pow2(code_size), !.nbits = @ - code_size],
              runs_out |-> FALSE,
              code |-> l.acc % Pow2(code_size)]

InitBits ==
    /\ bits \in {[pc |-> "start", sub_blocks |-> ps, stream |-> <<>>, pos |-> 0,
                   size |-> 0, code |-> 0, ref |-> 0, runs_out |-> FALSE,
                   a |-> [acc |-> 0, nbits |-> 0, next |-> 1]] :
                     ps \in UNION {Payloads(n) : n \in 0..MaxSubBlocks}}
    /\ dec = Idle /\ blocks = <<>> /\ play = Idle /\ obs = Idle /\ rows = Idle
    /\ parse = Idle

\* lines 341-367: the string is assembled and pos is its length
Assemble ==
    /\ bits.pc = "start"
    /\ bits' = [bits EXCEPT !.pc = "fetch",
                            !.stream = AssembleStream(Flatten(bits.sub_blocks)),
                            !.pos = Len(AssembleStream(Flatten(bits.sub_blocks)))]
    /\ UNCHANGED <<dec, blocks, play, obs, rows, parse>>

\* one call of fetch_code with some code size, and the accumulator beside it
FetchBits ==
    /\ bits.pc = "fetch"
    /\ \E code_size \in 1..MaxCodeSize :
         LET f == fetch_code(bits.stream, bits.pos, code_size)
             r == RefFetch(bits.a, Flatten(bits.sub_blocks), code_size)
         IN  bits' = [bits EXCEPT !.pc = IF f.throws THEN "terminated" ELSE "fetch",
                                  !.pos = f.pos,
                                  !.size = code_size,
                                  !.code = f.code,
                                  !.ref = r.code,
                                  !.runs_out = r.runs_out,
                                  !.a = r.a]
    /\ UNCHANGED <<dec, blocks, play, obs, rows, parse>>

NextBits == Assemble \/ FetchBits

SpecBits == InitBits /\ [][NextBits]_vars

\* C17: every code fetch_code takes from the assembled string is the code
\* the low-end-first accumulator takes from the bytes of the sub-blocks in
\* file order, for every sequence of code sizes; fetch_code throws exactly
\* when the accumulator runs out of bits, and the bits left are the same.
C17_LowEndFirst ==
    /\ bits.pc = "fetch" =>
          /\ bits.code = bits.ref
          /\ ~bits.runs_out
          /\ bits.pos = bits.a.nbits + 8 * (Len(Flatten(bits.sub_blocks)) + 1 - bits.a.next)
    /\ bits.pc = "terminated" => bits.runs_out

C17_Witness ==
    /\ bits.pc = "fetch"
    /\ bits.sub_blocks = <<<<165>>, <<68>>>>
    /\ bits.size = 7
    /\ bits.pos = 4
    /\ bits.code = 37

(***************************************************************************)
(* The parser, lines 191-590.  bytes is the file, idx the read position.   *)
(* bytes[k] with k past the end is undefined behaviour: the read crashes   *)
(* or gives some byte, ub says which, one outcome for a whole handler.     *)
(***************************************************************************)
ByteAt(bytes, k, ub) == IF k < Len(bytes) THEN bytes[k + 1] ELSE ub.val

\* lines 120-123 and 126-129
get_bit(n, p) == (n \div Pow2(p)) % 2 = 1
get_val(n, p, l) == (n \div Pow2(p)) % Pow2(l)

\* the reader after n reads of bytes[idx++]; oob: some read was past the end
Adv(bytes, rd, n) ==
    [rd EXCEPT !.idx = @ + n, !.oob = @ \/ (n > 0 /\ rd.idx + n > Len(bytes))]

\* bytes[idx++] | (bytes[idx++] << 8): the two increments are unsequenced,
\* swap says which operand is evaluated first
Word(bytes, k, swap, ub) ==
    IF swap THEN ByteAt(bytes, k + 1, ub) + 256 * ByteAt(bytes, k, ub)
    ELSE ByteAt(bytes, k, ub) + 256 * ByteAt(bytes, k + 1, ub)

\* n colors of three bytes each read from position k on
ReadColors(bytes, k, n, ub) ==
    [c \in 1..n |-> [r |-> ByteAt(bytes, k + 3 * (c - 1), ub),
                     g |-> ByteAt(bytes, k + 3 * (c - 1) + 1, ub),
                     b |-> ByteAt(bytes, k + 3 * (c - 1) + 2, ub)]]

\* a run of data sub-blocks whose bytes are read (lines 343-356, 502-515,
\* 545-560).  A length read past the end that is not 0 is followed by reads
\* ever further past the end: the run ends in a fault (dead).
RECURSIVE SubBlocks(_, _, _, _)
SubBlocks(bytes, rd, data, ub) ==
    LET nbytes == ByteAt(bytes, rd.idx, ub)
        r1 == Adv(bytes, rd, 1)
    IN  IF nbytes = 0 THEN [rd |-> r1, data |-> data]
        ELSE IF rd.idx >= Len(bytes) THEN [rd |-> [r1 EXCEPT !.dead = TRUE], data |-> data]
        ELSE SubBlocks(bytes, Adv(bytes, r1, nbytes),
                       data \o [k \in 1..nbytes |-> ByteAt(bytes, r1.idx + k - 1, ub)], ub)

\* lines 526-532: the sub-blocks of a plain text extension, their bytes skipped
RECURSIVE SkipBlocks(_, _, _)
SkipBlocks(bytes, rd, ub) ==
    LET nbytes == ByteAt(bytes, rd.idx, ub)
        r1 == Adv(bytes, rd, 1)
    IN  IF nbytes = 0 THEN r1
        ELSE IF rd.idx >= Len(bytes) THEN [r1 EXCEPT !.dead = TRUE]
        ELSE SkipBlocks(bytes, [r1 EXCEPT !.idx = @ + nbytes], ub)

\* the handler stops in a crash: a fault, or a read past the end that crashed
Crashes(rd, ub) == rd.dead \/ (rd.oob /\ ub.crash)

\* lines 367-434 on the assembled string: the decoder run to its end
RECURSIVE RunDecode(_, _, _)
RunDecode(d, stream, ub) ==
    IF d.pc = "first" THEN RunDecode(FirstFetch(d), stream, ub)
    ELSE IF d.pc = "literal"
    THEN RunDecode(LiteralFetch(d, fetch_code(stream, d.pos, d.code_size).code), stream, ub)
    ELSE IF d.pc = "loop"
    THEN RunDecode(LoopBody(d, fetch_code(stream, d.pos, d.code_size).code,
                            fetch_code(stream, d.pos - d.code_size, FirstCodeSize(d)).code,
                            ub), stream, ub)
    ELSE d

\* the result of a handler: the locals, the block list and the decoder
Parsed(p, rd, pc, outcome, bs, d) ==
    [parse |-> [p EXCEPT !.idx = rd.idx, !.oob = @ \/ rd.oob, !.pc = pc, !.outcome = outcome],
     blocks |-> bs, dec |-> d]

\* lines 204-263: the header, the logical screen descriptor and the global
\* color table
ParseHeaderStep(p, ub) ==
    LET bytes == p.bytes
        rd0 == [idx |-> 0, oob |-> Len(bytes) < 5, dead |-> FALSE]
        rd1 == [idx |-> 13, oob |-> Len(bytes) < 12, dead |-> FALSE]
        packed_field == ByteAt(bytes, 10, ub)
        gct_flag == get_bit(packed_field, 7)
        ncolors == Pow2(get_val(packed_field, 4, 3) + 1)
        rd2 == IF gct_flag THEN Adv(bytes, rd1, 3 * ncolors) ELSE rd1
    IN  IF Crashes(rd0, ub) THEN [p EXCEPT !.oob = TRUE, !.pc = "crashed"]
        ELSE IF ByteAt(bytes, 4, ub) # 57 THEN [p EXCEPT !.oob = rd0.oob, !.pc = "aborted"]
        ELSE IF Crashes(rd2, ub) THEN [p EXCEPT !.oob = TRUE, !.pc = "crashed"]
        ELSE [p EXCEPT !.idx = rd2.idx, !.oob = rd2.oob, !.pc = "blocks",
                       !.canvas_width = ByteAt(bytes, 6, ub) + 256 * ByteAt(bytes, 7, ub),
                       !.canvas_height = ByteAt(bytes, 8, ub) + 256 * ByteAt(bytes, 9, ub),
                       !.gct_flag = gct_flag,
                       !.bkgd_color_idx = ByteAt(bytes, 11, ub),
                       !.gct = IF gct_flag THEN ReadColors(bytes, 13, ncolors, ub) ELSE <<>>]

\* lines 278-452: an image descriptor, its color table, its sub-blocks and
\* the decode of its payload; rd is the reader after the introducer
ParseImageStep(p, bs, d, rd, swap, ub) ==
    LET bytes == p.bytes
        k == rd.idx
        packed_field == ByteAt(bytes, k + 8, ub)
        lct_flag == get_bit(packed_field, 7)
        nlct == Pow2(get_val(packed_field, 0, 3) + 1)
        rd1 == Adv(bytes, rd, 9)
        rd2 == IF lct_flag THEN Adv(bytes, rd1, 3 * nlct) ELSE rd1
        ct == IF lct_flag THEN ReadColors(bytes, rd1.idx, nlct, ub) ELSE p.gct
        lzw_min == ByteAt(bytes, rd2.idx, ub)
        sb == SubBlocks(bytes, Adv(bytes, rd2, 1), <<>>, ub)
        width == Word(bytes, k + 4, swap, ub)
        height == Word(bytes, k + 6, swap, ub)
        run == RunDecode(StartDecode(lzw_min, Len(ct), width, height, Len(sb.data)),
                         AssembleStream(sb.data), ub)
        image == [type |-> "IMAGE",
                  left |-> Word(bytes, k, swap, ub), top |-> Word(bytes, k + 2, swap, ub),
                  width |-> width, height |-> height,
                  interlace |-> get_bit(packed_field, 6),
                  ct |-> ct, index |-> run.index_stream]
    IN  IF Crashes(sb.rd, ub) THEN Parsed(p, sb.rd, "crashed", "none", bs, d)
        \* 1 << lzw_min with lzw_min past the width of int is undefined: the
        \* decode faults, or code_size is past the string and fetch_code throws
        ELSE IF lzw_min >= 31
        THEN Parsed(p, sb.rd, IF ub.crash THEN "crashed" ELSE "terminated", "none", bs, d)
        ELSE IF run.pc = "decoded" /\ AssertHolds(run)
        THEN Parsed(p, sb.rd, "blocks", "none", Append(bs, image),
                    [run EXCEPT !.pc = "pushed", !.last = "push"])
        ELSE IF run.pc = "decoded"
        THEN Parsed(p, sb.rd, "aborted", "none", bs, [run EXCEPT !.pc = "aborted", !.last = "assert"])
        ELSE Parsed(p, sb.rd, run.pc, "none", bs, run)

\* lines 459-487: a graphic control extension; rd is the reader after the label
ParseGraphicControlStep(p, bs, d, rd, swap, ub) ==
    LET bytes == p.bytes
        packed == ByteAt(bytes, rd.idx + 1, ub)
        rd1 == [Adv(bytes, rd, 5) EXCEPT !.idx = @ + 1]
        gc == [type |-> "GRAPHIC CONTROL",
               transparent |-> get_bit(packed, 0),
               disposal_method |-> get_val(packed, 2, 3),
               delay_time |-> Word(bytes, rd.idx + 2, swap, ub),
               color_index |-> ByteAt(bytes, rd.idx + 4, ub)]
    IN  IF Crashes(rd1, ub) THEN Parsed(p, rd1, "crashed", "none", bs, d)
        ELSE Parsed(p, rd1, "blocks", "none", Append(bs, gc), d)

\* lines 488-520: an application extension
ParseApplicationStep(p, bs, d, rd, ub) ==
    LET sb == SubBlocks(p.bytes, Adv(p.bytes, rd, 12), <<>>, ub)
    IN  IF Crashes(sb.rd, ub) THEN Parsed(p, sb.rd, "crashed", "none", bs, d)
        ELSE Parsed(p, sb.rd, "blocks", "none", Append(bs, [type |-> "APPLICATION EXTENSION"]), d)

\* lines 521-538: a plain text extension, skipped
ParsePlainTextStep(p, bs, d, rd, ub) ==
    LET skip == ByteAt(p.bytes, rd.idx, ub)
        r1 == SkipBlocks(p.bytes, [Adv(p.bytes, rd, 1) EXCEPT !.idx = @ + skip], ub)
    IN  IF Crashes(r1, ub) THEN Parsed(p, r1, "crashed", "none", bs, d)
        ELSE Parsed(p, r1, "blocks", "none", bs, d)

\* lines 539-567: a comment extension
ParseCommentStep(p, bs, d, rd, ub) ==
    LET sb == SubBlocks(p.bytes, rd, <<>>, ub)
    IN  IF Crashes(sb.rd, ub) THEN Parsed(p, sb.rd, "crashed", "none", bs, d)
        ELSE Parsed(p, sb.rd, "blocks", "none", Append(bs, [type |-> "COMMENT EXTENSION"]), d)

\* lines 453-576: the extension introducer and the switch on the label
ParseExtensionStep(p, bs, d, rd, swap, ub) ==
    LET label == ByteAt(p.bytes, rd.idx, ub)
        rd1 == Adv(p.bytes, rd, 1)
    IN  IF Crashes(rd1, ub) THEN Parsed(p, rd1, "crashed", "none", bs, d)
        ELSE IF label = 249 THEN ParseGraphicControlStep(p, bs, d, rd1, swap, ub)
        ELSE IF label = 255 THEN ParseApplicationStep(p, bs, d, rd1, ub)
        ELSE IF label = 1 THEN ParsePlainTextStep(p, bs, d, rd1, ub)
        ELSE IF label = 254 THEN ParseCommentStep(p, bs, d, rd1, ub)
        ELSE Parsed(p, rd1, "done", "bad label", bs, d)

\* lines 272-590: one iteration of while (!done)
ParseBlockStep(p, bs, d, swap, ub) ==
    LET b == ByteAt(p.bytes, p.idx, ub)
        rd == Adv(p.bytes, [idx |-> p.idx, oob |-> FALSE, dead |-> FALSE], 1)
    IN  IF Crashes(rd, ub) THEN Parsed(p, rd, "crashed", "none", bs, d)
        ELSE IF b = 44 THEN ParseImageStep(p, bs, d, rd, swap, ub)
        ELSE IF b = 33 THEN ParseExtensionStep(p, bs, d, rd, swap, ub)
        ELSE IF b = 59 THEN Parsed(p, rd, "done", "trailer", bs, d)
        ELSE Parsed(p, rd, "done", "bad introducer", bs, d)

(***************************************************************************)
(* The files parsed: a header, up to MaxChunks blocks, cut at any length.  *)
(***************************************************************************)
\* "GIF8", the version digit, "a", canvas 2 x 3, the packed field, the
\* background color index, the aspect ratio, then the global color table
FileHeader(version, packed_field) ==
    <<71, 73, 70, 56, version, 97, 2, 0, 3, 0, packed_field, 1, 0>>
    \o (IF packed_field >= 128 THEN <<255, 0, 0, 0, 255, 0>> ELSE <<>>)

FileHeaders == {FileHeader(57, 128), FileHeader(57, 0), FileHeader(55, 128)}

\* a 1 x 1 image, lzw_min 2, one sub-block with the codes clear, 0, eoi
ImageChunk == <<44, 0, 0, 0, 0, 1, 0, 1, 0, 0, 2, 2, 68, 1, 0>>
\* the same image with a local color table of 2 colors
LocalImageChunk ==
    <<44, 0, 0, 0, 0, 1, 0, 1, 0, 128, 9, 9, 9, 7, 7, 7, 2, 2, 68, 1, 0>>
\* disposal method 2, transparent, delay 5, transparent index 1
GraphicControlChunk == <<33, 249, 4, 9, 5, 0, 1, 0>>
ApplicationChunk ==
    <<33, 255, 11, 78, 69, 84, 83, 67, 65, 80, 69, 50, 46, 48, 3, 1, 0, 0, 0>>
PlainTextChunk == <<33, 1, 2, 0, 0, 1, 65, 0>>
CommentChunk == <<33, 254, 1, 65, 0>>
TrailerChunk == <<59>>
BadIntroducerChunk == <<7>>
BadLabelChunk == <<33, 7>>

Chunks ==
    {ImageChunk, LocalImageChunk, GraphicControlChunk, ApplicationChunk, PlainTextChunk,
     CommentChunk, TrailerChunk, BadIntroducerChunk, BadLabelChunk}

RECURSIVE ChunkRuns(_)
ChunkRuns(n) ==
    IF n = 0 THEN {<<>>}
    ELSE {r \o c : r \in ChunkRuns(n - 1), c \in Chunks}

Files ==
    UNION {{SubSeq(h \o r, 1, n) : n \in 0..Len(h \o r)} :
             h \in FileHeaders, r \in UNION {ChunkRuns(k) : k \in 0..MaxChunks}}

InitParse ==
    /\ parse \in {[bytes |-> f, idx |-> 0, oob |-> FALSE, pc |-> "header", outcome |-> "none",
                    canvas_width |-> 0, canvas_height |-> 0, gct_flag |-> FALSE,
                    bkgd_color_idx |-> 0, gct |-> <<>>] : f \in Files}
    /\ blocks = <<>>
    /\ dec = Idle /\ play = Idle /\ obs = Idle /\ rows = Idle /\ bits = Idle

ParseHeader ==
    /\ parse.pc = "header"
    /\ \E ub \in UBOutcomes : parse' = ParseHeaderStep(parse, ub)
    /\ UNCHANGED <<dec, blocks, play, obs, rows, bits>>

ParseBlock ==
    /\ parse.pc = "blocks"
    /\ \E ub \in UBOutcomes : \E swap \in BOOLEAN :
         LET r == ParseBlockStep(parse, blocks, dec, swap, ub)
         IN  parse' = r.parse /\ blocks' = r.blocks /\ dec' = r.dec
    /\ UNCHANGED <<play, obs, rows, bits>>

\* lines 592-652: the block list is printed, SDL is set up (sdl_ok: every
\* call succeeded, otherwise std::exit(1)) and the playback loop is entered
StartPlayback ==
    /\ parse.pc = "done"
    /\ \E sdl_ok \in BOOLEAN : \E ub \in UBOutcomes :
         LET bkgdPast == parse.gct_flag /\ parse.bkgd_color_idx >= Len(parse.gct)
         IN  IF ~sdl_ok THEN parse' = [parse EXCEPT !.pc = "exited"] /\ play' = play
             ELSE IF bkgdPast /\ ub.crash
             THEN parse' = [parse EXCEPT !.pc = "crashed"] /\ play' = play
             ELSE /\ parse' = [parse EXCEPT !.pc = "playing"]
                  /\ play' = [pc |-> "loop", i |-> 0, disposal |-> 2,
                               canvas_width |-> parse.canvas_width,
                               canvas_height |-> parse.canvas_height]
    /\ UNCHANGED <<dec, blocks, obs, rows, bits>>

NextParse == ParseHeader \/ ParseBlock \/ StartPlayback

SpecParse == InitParse /\ [][NextParse]_vars

\* C12: a block introducer other than 0x2C, 0x21, 0x3B and an extension
\* label other than 0xF9, 0xFF, 0x01, 0xFE end the parse in an error, after
\* which playback does not start; only the trailer ends the parse with
\* success.
C12_BadByteIsError ==
    /\ parse.outcome \in {"bad introducer", "bad label"} => parse.pc \notin {"done", "playing"}
    /\ parse.pc \in {"done", "playing"} => parse.outcome = "trailer"
    /\ play.pc = "loop" => parse.outcome = "trailer"

\* C13: the parser reads no byte at a position outside [0, length); a file
\* cut before its trailer ends the parse in the error UnexpectedEof.
C13_ReadsInBuffer ==
    /\ ~parse.oob
    /\ parse.pc \in {"done", "playing"} => parse.idx <= Len(parse.bytes)
====
